---- MODULE Spec2Model ----
(***************************************************************************)
(* A model of geosuggest-core: the index builder of                        *)
(* Engine::new_from_files_content and the query operations get, capital,   *)
(* suggest and reverse of src/geosuggest-core/src/lib.rs.                  *)
(*                                                                         *)
(* Strings are sequences of one-character strings.  Scores are exact       *)
(* fractions [n, d] with d > 0: the f32 rounding of a score is not         *)
(* modelled, the f32::EPSILON comparison of the sort is.                   *)
(***************************************************************************)
EXTENDS Integers, Sequences, FiniteSets, TLC

(***************************************************************************)
(* Bounds of the model.                                                    *)
(***************************************************************************)
\* the longest cities file, in rows
MaxRows == 2
\* the largest limit a query is called with
MaxLimit == 2
MaxNames == 3
MaxLines == 3
MaxParts == 3
MaxHandles == 2
MaxBuffers == 3

(***************************************************************************)
(* Strings.                                                                *)
(***************************************************************************)
UpperChars == <<"A", "B", "G", "R", "U">>
LowerChars == <<"a", "b", "g", "r", "u">>

\* char::to_lowercase on the model's alphabet
LowerCh(c) ==
    IF \E i \in DOMAIN UpperChars : UpperChars[i] = c
    THEN LowerChars[CHOOSE i \in DOMAIN UpperChars : UpperChars[i] = c]
    ELSE c

\* char::to_uppercase on the model's alphabet
UpperCh(c) ==
    IF \E i \in DOMAIN LowerChars : LowerChars[i] = c
    THEN UpperChars[CHOOSE i \in DOMAIN LowerChars : LowerChars[i] = c]
    ELSE c

\* str::to_lowercase
to_lowercase(s) == [i \in DOMAIN s |-> LowerCh(s[i])]

\* str::to_uppercase
to_uppercase(s) == [i \in DOMAIN s |-> UpperCh(s[i])]

\* str::starts_with
starts_with(s, p) ==
    /\ Len(p) <= Len(s)
    /\ \A i \in 1..Len(p) : s[i] = p[i]

Min2(a, b) == IF a <= b THEN a ELSE b
Max2(a, b) == IF a >= b THEN a ELSE b
Abs(x) == IF x < 0 THEN -x ELSE x

\* the piece of s before the first sep at or after position i (i itself if none)
RECURSIVE TokenEnd(_, _, _)
TokenEnd(s, sep, i) ==
    IF i > Len(s) \/ s[i] = sep THEN i ELSE TokenEnd(s, sep, i + 1)

\* str::split(sep): the pieces between separators; the empty string gives one
\* empty piece, and every separator starts a new piece
RECURSIVE SplitFrom(_, _, _)
SplitFrom(s, sep, i) ==
    LET e == TokenEnd(s, sep, i)
        piece == SubSeq(s, i, e - 1)
    IN IF e > Len(s) THEN <<piece>> ELSE <<piece>> \o SplitFrom(s, sep, e + 1)

split(s, sep) == SplitFrom(s, sep, 1)

(***************************************************************************)
(* Fractions.                                                              *)
(***************************************************************************)
Frac(n, d) == [n |-> n, d |-> d]
FracGe(x, y) == x.n * y.d >= y.n * x.d
FracGt(x, y) == x.n * y.d > y.n * x.d
FracEq(x, y) == x.n * y.d = y.n * x.d

(***************************************************************************)
(* strsim::jaro_winkler, as Engine::suggest calls it on (value, pattern).  *)
(***************************************************************************)
\* the first j in lo..hi-1 (0-based) with b[j] = ch and b_flags[j] unset; -1 if none
RECURSIVE JaroFind(_, _, _, _, _)
JaroFind(b, b_flags, ch, j, hi) ==
    IF j >= hi THEN -1
    ELSE IF b[j + 1] = ch /\ ~b_flags[j + 1] THEN j
    ELSE JaroFind(b, b_flags, ch, j + 1, hi)

\* the matching loop over a, from 0-based index i: the flags of a and b
RECURSIVE JaroMatch(_, _, _, _, _, _)
JaroMatch(a, b, range, i, a_flags, b_flags) ==
    IF i >= Len(a) THEN [a |-> a_flags, b |-> b_flags]
    ELSE LET min_bound == IF i > range THEN i - range ELSE 0
             max_bound == Min2(Len(b), i + range + 1)
             j == JaroFind(b, b_flags, a[i + 1], min_bound, max_bound)
         IN IF j < 0
            THEN JaroMatch(a, b, range, i + 1, a_flags, b_flags)
            ELSE JaroMatch(a, b, range, i + 1,
                           [a_flags EXCEPT ![i + 1] = TRUE],
                           [b_flags EXCEPT ![j + 1] = TRUE])

\* the flagged characters of s, in order
RECURSIVE Flagged(_, _, _)
Flagged(s, flags, i) ==
    IF i > Len(s) THEN <<>>
    ELSE (IF flags[i] THEN <<s[i]>> ELSE <<>>) \o Flagged(s, flags, i + 1)

\* strsim::jaro as a fraction
jaro(a, b) ==
    IF Len(a) = 0 /\ Len(b) = 0 THEN Frac(1, 1)
    ELSE IF Len(a) = 0 \/ Len(b) = 0 THEN Frac(0, 1)
    ELSE
      LET half == Max2(Len(a), Len(b)) \div 2
          range == IF half = 0 THEN 0 ELSE half - 1
          f == JaroMatch(a, b, range, 0,
                         [i \in 1..Len(a) |-> FALSE], [i \in 1..Len(b) |-> FALSE])
          ma == Flagged(a, f.a, 1)
          mb == Flagged(b, f.b, 1)
          m == Len(ma)
          t == Cardinality({i \in 1..m : ma[i] # mb[i]}) \div 2
      IN IF m = 0 THEN Frac(0, 1)
         ELSE Frac(m * Len(b) * m + m * Len(a) * m + (m - t) * Len(a) * Len(b),
                   3 * Len(a) * Len(b) * m)

\* the length of the common prefix of a and b, at most 4 characters
CommonPrefix(a, b) ==
    LET n == Min2(4, Min2(Len(a), Len(b)))
    IN Cardinality({k \in 1..n : \A i \in 1..k : a[i] = b[i]})

\* strsim::jaro_winkler: the prefix bonus applies above a similarity of 0.7
jaro_winkler(a, b) ==
    LET sim == jaro(a, b)
        l == CommonPrefix(a, b)
    IN IF FracGt(sim, Frac(7, 10))
       THEN Frac(10 * sim.n + l * (sim.d - sim.n), 10 * sim.d)
       ELSE sim

(***************************************************************************)
(* Option<T>: None is the empty sequence, Some(v) the sequence <<v>>.      *)
(***************************************************************************)
None == <<>>
Some(v) == <<v>>
IsSome(o) == Len(o) = 1
Unwrap(o) == o[1]

(***************************************************************************)
(* The input bundle: the rows of the cities file as CitiesRecordRaw, and   *)
(* the optional countries file as CountryRecordRaw rows.                   *)
(***************************************************************************)
CityRow(id, nf, fc, cc, pop, lat) ==
    [geonameid |-> id, name |-> nf[1], asciiname |-> nf[2], alternatenames |-> nf[3],
     latitude |-> lat, longitude |-> 0, feature_code |-> fc, country_code |-> cc,
     population |-> pop]

RU == <<"R", "U">>
GB == <<"G", "B">>
gb == <<"g", "b">>

\* name, asciiname, alternatenames
NameAba == << <<"A", "b", "a">>, <<"A", "b", "a">>, <<>> >>
NameAbb == << <<"A", "b", "b">>, <<"A", "b", "b">>, <<"a", "b">> >>
NameBa  == << <<"B", "a">>, <<"b", "a">>, <<"b", ",", "a", "b", "b">> >>

Ids == {1, 2}

\* rows that differ in what suggest reads: names, country, population
SuggestRows ==
    {CityRow(id, nf, "PPL", cc, pop, 0) :
        id \in Ids, nf \in {NameAba, NameAbb, NameBa}, cc \in {RU, GB}, pop \in {1, 2}}

\* rows that differ in what reverse reads: coordinates, country, population
ReverseRows ==
    {CityRow(id, NameAba, "PPL", cc, pop, lat) :
        id \in Ids, cc \in {RU, GB, gb}, pop \in {1, 2}, lat \in {0, 2}}

\* rows that differ in what the builder's filter and capital detection read
BuildRows ==
    {CityRow(id, nf, fc, cc, 1, 0) :
        id \in Ids, nf \in {NameAba, NameAbb}, fc \in {"PPL", "PPLC", "PPLX"},
        cc \in {RU, GB}}

CountryRow(iso, id, name) == [iso |-> iso, geonameid |-> id, name |-> name]

\* a countries file; the code gb is not upper case
CountriesFile ==
    << CountryRow(RU, 101, "Russia"), CountryRow(GB, 102, "Britain"),
       CountryRow(gb, 103, "britain") >>

\* all sequences over S of length at most n
RECURSIVE SeqsUpTo(_, _)
SeqsUpTo(S, n) ==
    IF n = 0 THEN {<<>>}
    ELSE LET shorter == SeqsUpTo(S, n - 1)
         IN shorter \cup {Append(s, x) : s \in {t \in shorter : Len(t) = n - 1}, x \in S}

(***************************************************************************)
(* The state: the builder's input and locals, and the Engine's fields.     *)
(***************************************************************************)
VARIABLES
    cities,                 \* the parsed rows of the cities file (records)
    countries,              \* Option: the rows of the countries file
    pc,                     \* "build" while the builder runs, then "ready"
    pos,                    \* the row the builder's loop is at
    geonames_vec,           \* the builder's Vec<CitiesRecord>
    entries,                \* Engine.entries
    geonames,               \* Engine.geonames
    capitals,               \* Engine.capitals
    country_info_by_code,   \* Engine.country_info_by_code
    tree_index_to_geonameid,\* Engine.tree_index_to_geonameid
    tree,                   \* Engine.tree: the points, by tree index
    tiePolicy,              \* how equal elements fall in sort_unstable_by and nearest_n
    last,                   \* the last query and what it returned
    metadata,               \* Engine.metadata: Option<EngineMetadata>
    file,                   \* the index file on storage, NoFile before the first dump
    dumped,                 \* the engine the file was written from (for comparison)
    remote,                 \* the ETag every source URL answers with now
    settings,               \* the sources the updater is configured with
    names,                  \* Option: the rows of the alternate names file
    names_by_id,            \* the builder's Option<HashMap<u32, HashMap<String, String>>>
    writer,                 \* a dump_to in progress: how far it is and what it writes
    heap,                   \* the leaked geoip2 buffers: "live" or "freed"
    handles                 \* the geoip2_reader of every Engine value, by handle

vars == <<cities, countries, pc, pos, geonames_vec, entries, geonames, capitals,
          country_info_by_code, tree_index_to_geonameid, tree, tiePolicy, last,
          metadata, file, dumped, remote, settings, names, names_by_id, writer,
          heap, handles>>

\* what no query changes: the input, the builder's locals and the Engine
engine == <<cities, countries, pos, geonames_vec, entries, geonames, capitals,
            country_info_by_code, tree_index_to_geonameid, tree, tiePolicy,
            metadata, file, dumped, remote, settings, names, names_by_id, writer,
            heap, handles>>

\* the alternate names and what the builder keeps of them
named == <<names, names_by_id>>

\* a writer in the middle of dump_to, and the geoip2 data
beside == <<writer, heap, handles>>

\* the storage and the updater's surroundings, which the builder leaves alone
outside == <<file, dumped, remote, settings>>

\* the sources of an index and the ETags a server may answer with
Sources == {"cities", "names", "countries", "admin1_codes", "admin2_codes"}
ETags == {"v1", "v2"}
NoFile == <<>>

\* a map as a function; the key's entry, last writer wins
MapPut(m, k, v) == [x \in DOMAIN m \cup {k} |-> IF x = k THEN v ELSE m[x]]
EmptyMap == [x \in {} |-> 0]

\* country_by_code: the rows collected into a HashMap keyed by iso
RECURSIVE CollectCountries(_, _)
CollectCountries(rows, i) ==
    IF i = 0 THEN EmptyMap
    ELSE MapPut(CollectCountries(rows, i - 1), rows[i].iso, rows[i])

country_by_code ==
    IF IsSome(countries)
    THEN Some(CollectCountries(Unwrap(countries), Len(Unwrap(countries))))
    ELSE None

\* a countries file whose only code is not upper case
LowerFile == << CountryRow(gb, 103, "britain") >>

\* no dump_to is running
Idle == [step |-> "idle"]

\* the input of a build and the empty locals; the builder is at start
InitBase(rows, files, start) ==
    /\ cities \in SeqsUpTo(rows, MaxRows)
    /\ countries \in files
    /\ tiePolicy \in {"forward", "backward"}
    /\ pc = start
    /\ pos = 1
    /\ geonames_vec = <<>>
    /\ entries = <<>>
    /\ geonames = EmptyMap
    /\ capitals = EmptyMap
    /\ country_info_by_code = EmptyMap
    /\ tree_index_to_geonameid = <<>>
    /\ tree = <<>>
    /\ last = [op |-> "none"]
    /\ metadata = None
    /\ file = NoFile
    /\ dumped = None
    /\ remote = [s \in Sources |-> "v1"]
    /\ writer = Idle
    /\ heap = <<>>
    /\ handles = <<None>>

\* a build without an alternate names file: names_by_id is None
InitEngine(rows, files) ==
    /\ InitBase(rows, files, "build")
    /\ names = None
    /\ names_by_id = None

InitFrom(rows, files) == InitEngine(rows, files) /\ settings = Sources

InitWith(rows) == InitFrom(rows, {None, Some(CountriesFile)})

(***************************************************************************)
(* The alternate names: the rows of the names file that the builder keeps, *)
(* one name for every geonameid and language.                              *)
(***************************************************************************)
\* a row of the names file; kind says which of its flags are "1"
AltName(id, lang, name, kind) ==
    [geonameid |-> id, isolanguage |-> lang, alternate_name |-> name,
     is_preferred_name |-> IF kind \in {"preferred", "short_preferred"} THEN "1" ELSE "",
     is_short_name |-> IF kind \in {"short", "short_preferred"} THEN "1" ELSE "",
     is_colloquial |-> IF kind = "colloquial" THEN "1" ELSE "",
     is_historic |-> IF kind = "historic" THEN "1" ELSE ""]

\* the languages the build is asked to keep
filter_languages == {"en", "ru"}

\* the geonameids of the city rows and of the country rows
city_geoids == {cities[i].geonameid : i \in 1..Len(cities)}
country_geoids ==
    IF IsSome(country_by_code)
    THEN {Unwrap(country_by_code)[code].geonameid : code \in DOMAIN Unwrap(country_by_code)}
    ELSE {}

\* the rows the loop passes over with `continue`
NamesSkipped(record) ==
    LET is_city_name == record.geonameid \in city_geoids
    IN \/ ~is_city_name /\ record.geonameid \notin country_geoids
       \/ is_city_name /\ record.is_short_name = "1" /\ record.is_preferred_name # "1"
       \/ record.is_colloquial = "1"
       \/ record.is_historic = "1"
       \/ record.isolanguage \notin filter_languages

\* variant: a stored name is always replaced
NamesInsertAlways(m, record) ==
    LET item == IF record.geonameid \in DOMAIN m THEN m[record.geonameid] ELSE EmptyMap
    IN MapPut(m, record.geonameid, MapPut(item, record.isolanguage, record))

\* the row is stored under (geonameid, isolanguage) unless the row stored
\* there is a preferred name
NamesInsert(m, record) ==
    IF record.geonameid \in DOMAIN m
    THEN LET item == m[record.geonameid]
             is_current_preferred_name ==
                 /\ record.isolanguage \in DOMAIN item
                 /\ item[record.isolanguage].is_preferred_name = "1"
         IN IF ~is_current_preferred_name
            THEN MapPut(m, record.geonameid, MapPut(item, record.isolanguage, record))
            ELSE m
    ELSE MapPut(m, record.geonameid, MapPut(EmptyMap, record.isolanguage, record))

\* the loop over the first i rows of the one chunk
RECURSIVE NamesLoop(_, _)
NamesLoop(rows, i) ==
    IF i = 0 THEN EmptyMap
    ELSE IF NamesSkipped(rows[i]) THEN NamesLoop(rows, i - 1)
    ELSE NamesInsert(NamesLoop(rows, i - 1), rows[i])

\* the rows kept, converted to their alternate_name
NamesById(rows) ==
    LET m == NamesLoop(rows, Len(rows))
    IN [id \in DOMAIN m |-> [lang \in DOMAIN m[id] |-> m[id][lang].alternate_name]]

\* the names file is read before the loop over the city rows
ReadNames ==
    /\ pc = "names"
    /\ names_by_id' = IF IsSome(names) THEN Some(NamesById(Unwrap(names))) ELSE None
    /\ pc' = "build"
    /\ UNCHANGED <<cities, countries, pos, geonames_vec, entries, geonames, capitals,
                   country_info_by_code, tree_index_to_geonameid, tree, tiePolicy, last,
                   metadata, names>>
    /\ UNCHANGED outside
    /\ UNCHANGED beside

(***************************************************************************)
(* The builder: the loop of new_from_files_content over the rows.          *)
(***************************************************************************)
\* variant: PPLX is not dropped
IsExcludedShort(feature_code) ==
    feature_code \in {"PPLA3", "PPLA4", "PPLA5", "PPLF", "PPLL", "PPLQ", "PPLW", "STLMT"}

\* the feature codes the builder drops
IsExcluded(feature_code) ==
    feature_code \in {"PPLA3", "PPLA4", "PPLA5", "PPLF", "PPLL", "PPLQ", "PPLW",
                      "PPLX", "STLMT"}

\* HashMap::get as an Option
MapGet(m, k) == IF k \in DOMAIN m THEN Some(m[k]) ELSE None

\* the country row the builder resolves for a city row's country code
CountryOf(record) ==
    IF IsSome(country_by_code)
    THEN MapGet(Unwrap(country_by_code), record.country_code)
    ELSE None

Entry(id, value, country_id) == [id |-> id, value |-> value, country_id |-> country_id]

\* the entries pushed for one row: name, asciiname if it differs, every piece of
\* alternatenames
EntriesOf(record) ==
    LET c == CountryOf(record)
        country_id == IF IsSome(c) THEN Some(Unwrap(c).geonameid) ELSE None
        alts == split(record.alternatenames, ",")
    IN <<Entry(record.geonameid, to_lowercase(record.name), country_id)>>
       \o (IF record.name # record.asciiname
           THEN <<Entry(record.geonameid, to_lowercase(record.asciiname), country_id)>>
           ELSE <<>>)
       \o [i \in 1..Len(alts) |->
              Entry(record.geonameid, to_lowercase(alts[i]), country_id)]

\* impl From<&CountryRecordRaw> for Country
CountryFrom(c) == [id |-> c.geonameid, code |-> c.iso, name |-> c.name]

\* names.get(&id).cloned() when an alternate names file was given
NamesOf(id) ==
    IF IsSome(names_by_id) THEN MapGet(Unwrap(names_by_id), id) ELSE None

\* the CitiesRecord pushed for one row; the admin divisions and their names
\* are left out (no admin codes file is given)
CityOf(record) ==
    LET c == CountryOf(record)
    IN [id |-> record.geonameid,
        name |-> record.name,
        country |-> IF IsSome(c) THEN Some(CountryFrom(Unwrap(c))) ELSE None,
        latitude |-> record.latitude,
        longitude |-> record.longitude,
        names |-> NamesOf(record.geonameid),
        country_names |-> IF IsSome(c) THEN NamesOf(Unwrap(c).geonameid) ELSE None,
        population |-> record.population]

\* names_by_id after one row: the bundle of a row that is not a capital is
\* taken out of the map (names.remove)
NamesAfter(record) ==
    IF IsSome(names_by_id) /\ record.feature_code # "PPLC"
    THEN LET m == Unwrap(names_by_id)
         IN Some([id \in DOMAIN m \ {record.geonameid} |-> m[id]])
    ELSE names_by_id

\* capitals after one row: a PPLC row records its country code, when a
\* countries file was given
CapitalsAfter(caps, record) ==
    IF IsSome(country_by_code) /\ record.feature_code = "PPLC"
    THEN MapPut(caps, record.country_code, record.geonameid)
    ELSE caps

\* one turn of the loop `for record in records`
ReadRecord ==
    /\ pc = "build"
    /\ pos <= Len(cities)
    /\ LET record == cities[pos]
       IN IF IsExcluded(record.feature_code)
          THEN UNCHANGED <<entries, capitals, geonames_vec, names_by_id>>
          ELSE /\ entries' = entries \o EntriesOf(record)
               /\ capitals' = CapitalsAfter(capitals, record)
               /\ geonames_vec' = Append(geonames_vec, CityOf(record))
               /\ names_by_id' = NamesAfter(record)
    /\ pos' = pos + 1
    /\ UNCHANGED <<cities, countries, pc, geonames, country_info_by_code,
                   tree_index_to_geonameid, tree, tiePolicy, last, metadata, names>>
    /\ UNCHANGED outside
    /\ UNCHANGED beside

\* the permutations of 1..n
Perms(n) == {f \in [1..n -> 1..n] : \A i, j \in 1..n : i # j => f[i] # f[j]}

\* sort_unstable_by_key(|item| item.id): any arrangement with the ids in order
SortedById(v) ==
    {[i \in 1..Len(v) |-> v[f[i]]] :
        f \in {g \in Perms(Len(v)) :
                 \A i \in 1..(Len(v) - 1) : v[g[i]].id <= v[g[i + 1]].id}}

\* variant: a run of equal ids is dropped whole
DedupDropRuns(v) ==
    SelectSeq(v, LAMBDA x : Cardinality({i \in 1..Len(v) : v[i].id = x.id}) = 1)

\* dedup_by_key(|item| item.id): the first of every run of equal ids is kept
RECURSIVE DedupById(_)
DedupById(v) ==
    IF Len(v) <= 1 THEN v
    ELSE LET front == DedupById(SubSeq(v, 1, Len(v) - 1))
         IN IF v[Len(v)].id = v[Len(v) - 1].id THEN front ELSE Append(front, v[Len(v)])

\* the CountryRecord of every country row
CountryInfoByCode ==
    IF IsSome(country_by_code)
    THEN [code \in DOMAIN Unwrap(country_by_code) |->
             LET country == Unwrap(country_by_code)[code]
             IN [names |-> NamesOf(country.geonameid),
                 capital_names |-> IF country.iso \in DOMAIN capitals
                                   THEN NamesOf(capitals[country.iso])
                                   ELSE None,
                 info |-> country]]
    ELSE EmptyMap

\* after the loop: sort and dedup geonames, build the tree and the Engine
Finish ==
    /\ pc = "build"
    /\ pos > Len(cities)
    /\ \E sorted \in SortedById(geonames_vec) :
          LET items == DedupById(sorted)
          IN /\ tree_index_to_geonameid' = [i \in 1..Len(items) |-> items[i].id]
             /\ tree' = [i \in 1..Len(items) |-> <<items[i].latitude, items[i].longitude>>]
             /\ geonames' = [id \in {items[i].id : i \in 1..Len(items)} |->
                                LET i == CHOOSE k \in 1..Len(items) : items[k].id = id
                                IN items[i]]
    /\ geonames_vec' = <<>>
    /\ country_info_by_code' = CountryInfoByCode
    /\ metadata' = None
    /\ pc' = "ready"
    /\ UNCHANGED <<cities, countries, pos, entries, capitals, tiePolicy, last>>
    /\ UNCHANGED outside
    /\ UNCHANGED named
    /\ UNCHANGED beside

(***************************************************************************)
(* Unspecified order.  sort_unstable_by may place elements its comparator  *)
(* calls equal in any order, but places them the same way every time it is *)
(* given the same slice.  It is modelled by an insertion sort that runs    *)
(* over the slice as given (tiePolicy "forward") or reversed ("backward"). *)
(***************************************************************************)
RECURSIVE Reverse(_)
Reverse(s) == IF s = <<>> THEN <<>> ELSE Append(Reverse(Tail(s)), Head(s))

Arrange(s) == IF tiePolicy = "forward" THEN s ELSE Reverse(s)

(***************************************************************************)
(* Engine::get and Engine::capital.                                        *)
(***************************************************************************)
get(id) == MapGet(geonames, id)

capital(country_code) ==
    LET city_id == MapGet(capitals, to_uppercase(country_code))
    IN IF IsSome(city_id) THEN get(Unwrap(city_id)) ELSE None

country_info(country_code) == MapGet(country_info_by_code, to_uppercase(country_code))

(***************************************************************************)
(* Engine::suggest.                                                        *)
(***************************************************************************)
\* 1 / f32::EPSILON
F32EpsilonInv == 8388608

\* (lhs - rhs).abs() < f32::EPSILON
EpsilonEq(x, y) ==
    Abs(x.n * y.d - y.n * x.d) < (x.d * y.d + F32EpsilonInv - 1) \div F32EpsilonInv

\* variant: the score without the prefix test
ScoreOfNoPrefix(item, normalized_pattern) ==
    jaro_winkler(item.value, normalized_pattern)

\* the score of an entry against the lowercased pattern
ScoreOf(item, normalized_pattern) ==
    IF starts_with(item.value, normalized_pattern)
    THEN Frac(1, 1)
    ELSE jaro_winkler(item.value, normalized_pattern)

\* variant: a default threshold of 0.9
MinScoreOrHigh(min_score) == IF min_score # <<>> THEN min_score[1] ELSE Frac(9, 10)

\* min_score.unwrap_or(0.8)
MinScoreOr(min_score) == IF IsSome(min_score) THEN Unwrap(min_score) ELSE Frac(8, 10)

\* the closure filter_by_pattern: Some((city, score)) or None
filter_by_pattern(item, normalized_pattern, min_score) ==
    LET score == ScoreOf(item, normalized_pattern)
    IN IF FracGe(score, min_score) /\ item.id \in DOMAIN geonames
       THEN Some([city |-> geonames[item.id], score |-> score])
       ELSE None

\* the geonameids the given country codes resolve to
CountryIds(codes) ==
    {country_info_by_code[to_uppercase(codes[i])].info.geonameid :
        i \in {k \in 1..Len(codes) : to_uppercase(codes[k]) \in DOMAIN country_info_by_code}}

\* the prefilter by countries
PassesCountries(item, country_filter) ==
    IF IsSome(country_filter)
    THEN IsSome(item.country_id)
         /\ Unwrap(item.country_id) \in CountryIds(Unwrap(country_filter))
    ELSE TRUE

\* filter(...).filter_map(filter_by_pattern).collect(): in the order of entries
RECURSIVE Collect(_, _, _, _)
Collect(i, normalized_pattern, min_score, country_filter) ==
    IF i = 0 THEN <<>>
    ELSE LET rest == Collect(i - 1, normalized_pattern, min_score, country_filter)
             hit == IF PassesCountries(entries[i], country_filter)
                    THEN filter_by_pattern(entries[i], normalized_pattern, min_score)
                    ELSE None
         IN rest \o hit

\* variant: equal scores ordered by ascending population
SuggestBeforePopAsc(lhs, rhs) ==
    IF EpsilonEq(lhs.score, rhs.score)
    THEN lhs.city.population < rhs.city.population
    ELSE FracGt(lhs.score, rhs.score)

\* variant: ascending scores
SuggestBeforeScoreAsc(lhs, rhs) ==
    IF EpsilonEq(lhs.score, rhs.score)
    THEN lhs.city.population > rhs.city.population
    ELSE FracGt(rhs.score, lhs.score)

\* the comparator of the sort says Less: score desc, then population desc
SuggestBefore(lhs, rhs) ==
    IF EpsilonEq(lhs.score, rhs.score)
    THEN lhs.city.population > rhs.city.population
    ELSE FracGt(lhs.score, rhs.score)

\* x placed into the sorted s, behind everything it is not before
RECURSIVE SuggestInsert(_, _)
SuggestInsert(s, x) ==
    IF s = <<>> THEN <<x>>
    ELSE IF SuggestBefore(x, Head(s)) THEN <<x>> \o s
    ELSE <<Head(s)>> \o SuggestInsert(Tail(s), x)

RECURSIVE SuggestSortFrom(_, _)
SuggestSortFrom(s, i) ==
    IF i = 0 THEN <<>> ELSE SuggestInsert(SuggestSortFrom(s, i - 1), s[i])

\* result.sort_unstable_by(...)
SuggestSort(s) == SuggestSortFrom(Arrange(s), Len(s))

\* variant: no removal of repeated cities
UniqueByIdKeepAll(s) == s

\* unique_by(|item| item.0.id): the first of every city id
RECURSIVE UniqueById(_)
UniqueById(s) ==
    IF s = <<>> THEN <<>>
    ELSE LET front == UniqueById(SubSeq(s, 1, Len(s) - 1))
             x == s[Len(s)]
         IN IF \E i \in 1..Len(front) : front[i].city.id = x.city.id
            THEN front ELSE Append(front, x)

\* take(limit)
Take(s, n) == SubSeq(s, 1, Min2(n, Len(s)))

\* the list of (city, score) before the limit is applied
SuggestRanked(pattern, min_score, country_filter) ==
    UniqueById(SuggestSort(
        Collect(Len(entries), to_lowercase(pattern), MinScoreOr(min_score),
                country_filter)))

\* variant: the limit applied to the hits before they are sorted
SuggestTakeFirst(pattern, limit, min_score, country_filter) ==
    LET hits == Collect(Len(entries), to_lowercase(pattern), MinScoreOr(min_score),
                        country_filter)
        top == UniqueById(SuggestSort(Take(hits, limit)))
    IN [i \in 1..Len(top) |-> top[i].city]

suggest(pattern, limit, min_score, country_filter) ==
    IF limit = 0 THEN <<>>
    ELSE LET top == Take(SuggestRanked(pattern, min_score, country_filter), limit)
         IN [i \in 1..Len(top) |-> top[i].city]

(***************************************************************************)
(* Engine::reverse.                                                        *)
(***************************************************************************)
\* SquaredEuclidean between a tree point and the query point
Dist(point, loc) ==
    (point[1] - loc[1]) * (point[1] - loc[1]) + (point[2] - loc[2]) * (point[2] - loc[2])

Nearest(item, distance) == [item |-> item, distance |-> distance]

RECURSIVE NearInsert(_, _)
NearInsert(s, x) ==
    IF s = <<>> THEN <<x>>
    ELSE IF x.distance < Head(s).distance THEN <<x>> \o s
    ELSE <<Head(s)>> \o NearInsert(Tail(s), x)

RECURSIVE NearSortFrom(_, _)
NearSortFrom(s, i) ==
    IF i = 0 THEN <<>> ELSE NearInsert(NearSortFrom(s, i - 1), s[i])

\* variant: the first qty tree items, not the nearest
NearestInTreeOrder(loc, qty) ==
    Take([i \in 1..Len(tree) |-> Nearest(i, Dist(tree[i], loc))], qty)

\* tree.nearest_n(loc, qty): the qty nearest tree items, nearest first; which of
\* two items at the same distance comes first is the tree's own choice
nearest_n(loc, qty) ==
    LET all == [i \in 1..Len(tree) |-> Nearest(i, Dist(tree[i], loc))]
    IN Take(NearSortFrom(Arrange(all), Len(all)), qty)

\* the closures of filter_map: Some((nearest, city)) or None
ReverseHit(nearest, country_filter) ==
    IF nearest.item \notin DOMAIN tree_index_to_geonameid THEN None
    ELSE LET geonameid == tree_index_to_geonameid[nearest.item]
         IN IF geonameid \notin DOMAIN geonames THEN None
            ELSE LET city == geonames[geonameid]
                 IN IF ~IsSome(country_filter) THEN Some([nearest |-> nearest, city |-> city])
                    ELSE IF ~IsSome(city.country) THEN None
                    ELSE LET codes == Unwrap(country_filter)
                             normalized == {to_uppercase(codes[i]) : i \in 1..Len(codes)}
                         IN IF Unwrap(city.country).code \in normalized
                            THEN Some([nearest |-> nearest, city |-> city])
                            ELSE None

RECURSIVE ReverseHits(_, _, _)
ReverseHits(items, i, country_filter) ==
    IF i = 0 THEN <<>>
    ELSE ReverseHits(items, i - 1, country_filter) \o ReverseHit(items[i], country_filter)

ReverseItem(city, distance, score) ==
    [city |-> city, distance |-> distance, score |-> score]

RECURSIVE PointInsert(_, _)
PointInsert(s, x) ==
    IF s = <<>> THEN <<x>>
    ELSE IF x.score < Head(s).score THEN <<x>> \o s
    ELSE <<Head(s)>> \o PointInsert(Tail(s), x)

RECURSIVE PointSortFrom(_, _)
PointSortFrom(s, i) ==
    IF i = 0 THEN <<>> ELSE PointInsert(PointSortFrom(s, i - 1), s[i])

\* points.sort_unstable_by(|a, b| a.1.partial_cmp(&b.1))
PointSort(s) == PointSortFrom(Arrange(s), Len(s))

\* if countries.is_some() { self.geonames.len() } else { limit }
NearestLimit(limit, country_filter) ==
    IF IsSome(country_filter) THEN Cardinality(DOMAIN geonames) ELSE limit

\* variant: the hits sorted by score before the limit is applied
ReverseSortFirst(loc, limit, k, country_filter) ==
    IF limit = 0 \/ NearestLimit(limit, country_filter) = 0 THEN None
    ELSE LET items == nearest_n(loc, NearestLimit(limit, country_filter))
             hits == ReverseHits(items, Len(items), country_filter)
             weight == IF IsSome(k) THEN Unwrap(k) ELSE 0
         IN Some(Take(PointSort(
                [i \in 1..Len(hits) |->
                    ReverseItem(hits[i].city, hits[i].nearest.distance,
                                hits[i].nearest.distance
                                   - weight * hits[i].city.population)]), limit))

reverse(loc, limit, k, country_filter) ==
    IF limit = 0 THEN None
    ELSE IF NearestLimit(limit, country_filter) = 0 THEN None
    ELSE LET items == nearest_n(loc, NearestLimit(limit, country_filter))
             hits == Take(ReverseHits(items, Len(items), country_filter), limit)
         IN IF IsSome(k)
            THEN Some(PointSort(
                     [i \in 1..Len(hits) |->
                         ReverseItem(hits[i].city, hits[i].nearest.distance,
                                     hits[i].nearest.distance
                                        - Unwrap(k) * hits[i].city.population)]))
            ELSE Some([i \in 1..Len(hits) |->
                         ReverseItem(hits[i].city, hits[i].nearest.distance,
                                     hits[i].nearest.distance)])

(***************************************************************************)
(* The queries, as actions on a built engine.                              *)
(***************************************************************************)
ru == <<"r", "u">>

Patterns == {<<>>, <<"A", "b", "a">>, <<"b">>}
MinScores == {None, Some(Frac(0, 1)), Some(Frac(11, 10))}
CountryFilters == {None, Some(<<>>), Some(<<ru>>), Some(<<gb>>)}
Codes == {RU, ru, GB, gb}
Locs == {<<0, 0>>, <<1, 0>>}
Weights == {None, Some(1), Some(5)}

Get ==
    /\ pc = "ready"
    /\ \E id \in Ids \cup {3} :
          last' = [op |-> "get", id |-> id, result |-> get(id)]
    /\ pc' = "answered"
    /\ UNCHANGED engine

Capital ==
    /\ pc = "ready"
    /\ \E code \in Codes :
          last' = [op |-> "capital", code |-> code, result |-> capital(code)]
    /\ pc' = "answered"
    /\ UNCHANGED engine

CountryInfo ==
    /\ pc = "ready"
    /\ \E code \in Codes :
          last' = [op |-> "country_info", code |-> code, result |-> country_info(code)]
    /\ pc' = "answered"
    /\ UNCHANGED engine

Suggest ==
    /\ pc = "ready"
    /\ \E pattern \in Patterns, limit \in 0..MaxLimit, min_score \in MinScores,
          country_filter \in CountryFilters :
          last' = [op |-> "suggest", pattern |-> pattern, limit |-> limit,
                   min_score |-> min_score, countries |-> country_filter,
                   result |-> suggest(pattern, limit, min_score, country_filter)]
    /\ pc' = "answered"
    /\ UNCHANGED engine

ReverseQuery ==
    /\ pc = "ready"
    /\ \E loc \in Locs, limit \in 0..MaxLimit, k \in Weights,
          country_filter \in CountryFilters :
          last' = [op |-> "reverse", loc |-> loc, limit |-> limit, k |-> k,
                   countries |-> country_filter,
                   result |-> reverse(loc, limit, k, country_filter)]
    /\ pc' = "answered"
    /\ UNCHANGED engine

\* the caller takes the answer; the engine is ready for the next query
Respond ==
    /\ pc = "answered"
    /\ pc' = "ready"
    /\ last' = [op |-> "none"]
    /\ UNCHANGED engine

Next ==
    ReadRecord \/ Finish \/ Get \/ Capital \/ CountryInfo \/ Suggest \/ ReverseQuery
        \/ Respond

Init == InitWith(SuggestRows \cup ReverseRows \cup BuildRows)
Spec == Init /\ [][Next]_vars

\* suggest, over the bundles that differ in what suggest reads
InitSuggest == InitWith(SuggestRows)
NextSuggest == ReadRecord \/ Finish \/ Suggest \/ Respond
SpecSuggest == InitSuggest /\ [][NextSuggest]_vars

\* reverse, over the bundles that differ in what reverse reads
InitReverse == InitWith(ReverseRows)
NextReverse == ReadRecord \/ Finish \/ ReverseQuery \/ Respond
SpecReverse == InitReverse /\ [][NextReverse]_vars

\* every query, over the bundles that differ in what the builder's filter and
\* capital detection read
InitBuild == InitFrom(BuildRows, {None, Some(CountriesFile), Some(LowerFile)})
SpecBuild == InitBuild /\ [][Next]_vars

\* a build with an alternate names file: the names are read first
InitNamed(rows, files, namefiles) ==
    /\ InitBase(rows, files, "names")
    /\ settings = Sources
    /\ names \in namefiles
    /\ names_by_id = None

\* rows of the names file: names of a city (1) and of a country (101), in a
\* kept language with every flag, in a language that is not kept, of an id
\* that is neither city nor country
NameRecords ==
    {AltName(id, "en", name, kind) :
        id \in {1, 101}, name \in {"x", "y"}, kind \in {"plain", "preferred", "short"}}
      \cup {AltName(1, "en", "x", kind) : kind \in {"colloquial", "historic", "short_preferred"}}
      \cup {AltName(1, "de", "x", "plain"), AltName(1, "ru", "y", "plain"),
            AltName(3, "en", "x", "plain")}

\* the names file, over a cities file with or without the city
InitNames ==
    InitNamed({CityRow(1, NameAba, "PPL", RU, 1, 0)}, {Some(CountriesFile)},
              {None} \cup {Some(rows) : rows \in SeqsUpTo(NameRecords, MaxNames)})
NextNames == ReadNames \/ ReadRecord \/ Finish \/ Get \/ Respond
SpecNames == InitNames /\ [][NextNames]_vars

\* city rows of one country whose geonameids are those of two cities and of
\* the country itself
NamedRows == {CityRow(id, NameAba, fc, RU, 1, 0) : id \in {1, 2, 101}, fc \in {"PPL", "PPLC"}}

\* a names file with a name for the country and for each city
NamedFile ==
    << AltName(101, "en", "x", "plain"), AltName(1, "en", "y", "plain"),
       AltName(2, "en", "z", "plain") >>

\* builds whose records carry names bundles, and the queries that return them
InitNamedBuild == InitNamed(NamedRows, {Some(CountriesFile)}, {None, Some(NamedFile)})
NextNamedBuild ==
    ReadNames \/ ReadRecord \/ Finish \/ Get \/ Capital \/ CountryInfo \/ Respond
SpecNamedBuild == InitNamedBuild /\ [][NextNamedBuild]_vars

(***************************************************************************)
(* Reading the cities content: it is split into chunks of lines, every     *)
(* chunk is read by a csv reader of its own, and the rows are appended in  *)
(* chunk order.  A line is modelled by its number of fields and by whether *)
(* its fields deserialize into a CitiesRecordRaw.                          *)
(***************************************************************************)
\* the fields of CitiesRecordRaw
CitiesFields == 19

\* the lines of a cities content: two well-formed rows, a row of the right
\* width with a field that does not parse, a line of one field, a blank line
CityLine(fields, parses, id) == [fields |-> fields, parses |-> parses, geonameid |-> id]
Lines ==
    {CityLine(CitiesFields, TRUE, 1), CityLine(CitiesFields, TRUE, 2),
     CityLine(CitiesFields, FALSE, 0), CityLine(1, FALSE, 0), CityLine(0, FALSE, 0)}

\* split_content_to_n_parts: the whole content for n of 0 or 1, chunks of n
\* lines otherwise
split_content_to_n_parts(content, n) ==
    IF n = 0 \/ n = 1 THEN <<content>>
    ELSE [k \in 1..((Len(content) + n - 1) \div n) |->
             SubSeq(content, (k - 1) * n + 1, Min2(k * n, Len(content)))]

\* rdr.deserialize().filter_map(|row| row.ok()): the reader skips blank lines,
\* fails every record whose number of fields differs from that of the first
\* record it read, and a record that does not deserialize fails too
CsvRows(chunk) ==
    LET records == SelectSeq(chunk, LAMBDA line : line.fields # 0)
    IN SelectSeq(records, LAMBDA line : line.fields = records[1].fields /\ line.parses)

\* reduce(Vec::new, append) over the chunks, in chunk order
RECURSIVE AppendChunks(_, _)
AppendChunks(chunks, k) ==
    IF k = 0 THEN <<>> ELSE AppendChunks(chunks, k - 1) \o CsvRows(chunks[k])

\* the records of a cities content read with n threads
CitiesRecords(content, n) ==
    LET chunks == split_content_to_n_parts(content, n)
    IN AppendChunks(chunks, Len(chunks))

\* the first step of new_from_files_content, on a content of its own
ParseCities ==
    /\ pc = "ready"
    /\ \E content \in SeqsUpTo(Lines, MaxLines), n \in 0..MaxParts :
          last' = [op |-> "parse", content |-> content, n |-> n,
                   result |-> CitiesRecords(content, n)]
    /\ pc' = "answered"
    /\ UNCHANGED engine

InitParse == InitFrom({}, {None})
NextParse == Finish \/ ParseCities \/ Respond
SpecParse == InitParse /\ [][NextParse]_vars

(***************************************************************************)
(* Storage (rkyv): the file is a 4-byte length prefix, the archived         *)
(* metadata and the archived engine.  Bytes are not modelled one by one: a *)
(* region of the file is the archive of a value, or bytes that are not the *)
(* archive of anything; lengths are counted in abstract units.             *)
(***************************************************************************)
\* EngineMetadata::default(): no ETag recorded
DefaultMetadata == [etag |-> EmptyMap]

\* rkyv::to_bytes(value): the archive of a value of the type
Archive(type, value) == [archived |-> type, value |-> value]
Garbage == [archived |-> "garbage"]
Empty == [archived |-> "nothing"]

\* the length of a region
Size(region) ==
    IF region = Empty THEN 0
    ELSE IF region.archived = "Engine" THEN 3
    ELSE IF region.archived = "garbage" THEN 1
    ELSE 2

\* what rkyv serializes of an Engine: tree and tree_index_to_geonameid are skipped
EngineArchive ==
    [entries |-> entries, geonames |-> geonames, capitals |-> capitals,
     country_info_by_code |-> country_info_by_code, metadata |-> metadata]

\* Storage::dump: prefix, metadata, engine
dump ==
    LET meta == Archive("Option<EngineMetadata>", metadata)
        data == Archive("Engine", EngineArchive)
    IN [prefix |-> Size(meta), meta |-> meta, rest |-> Size(meta) + Size(data),
        payload |-> data]

\* the ids of a map in ascending order
RECURSIVE SortedIds(_)
SortedIds(ids) ==
    IF ids = {} THEN <<>>
    ELSE LET least == CHOOSE i \in ids : \A j \in ids : i <= j
         IN <<least>> \o SortedIds(ids \ {least})

\* variant: the tree items taken in descending order of id
DescendingItems(engine_dump) ==
    LET ids == Reverse(SortedIds(DOMAIN engine_dump.geonames))
    IN [i \in 1..Len(ids) |-> engine_dump.geonames[ids[i]]]

\* items of From<EngineDump>: the records sorted by id, one per id
DumpItems(engine_dump) ==
    LET ids == SortedIds(DOMAIN engine_dump.geonames)
    IN DedupById([i \in 1..Len(ids) |-> engine_dump.geonames[ids[i]]])

\* impl From<EngineDump> for Engine
FromDump(engine_dump) ==
    LET items == DumpItems(engine_dump)
    IN [entries |-> engine_dump.entries,
        geonames |-> engine_dump.geonames,
        capitals |-> engine_dump.capitals,
        country_info_by_code |-> engine_dump.country_info_by_code,
        tree_index_to_geonameid |-> [i \in 1..Len(items) |-> items[i].id],
        tree |-> [i \in 1..Len(items) |-> <<items[i].latitude, items[i].longitude>>],
        metadata |-> engine_dump.metadata]

\* the fields of the Engine in the state
EngineFields ==
    [entries |-> entries, geonames |-> geonames, capitals |-> capitals,
     country_info_by_code |-> country_info_by_code,
     tree_index_to_geonameid |-> tree_index_to_geonameid, tree |-> tree,
     metadata |-> metadata]

Ok(v) == [kind |-> "ok", value |-> v]
Err == [kind |-> "err"]
Panic == [kind |-> "panic"]

\* Storage::load_from: open, read the prefix, skip the metadata, access and
\* deserialize the rest; access(..).unwrap() panics on bytes that do not validate
load_from(f) ==
    IF f = NoFile THEN Err
    ELSE IF f.prefix > f.rest THEN Err
    ELSE IF f.payload.archived = "Engine" THEN Ok(FromDump(f.payload.value))
    ELSE Panic

\* Storage::read_metadata: the outcomes it can end with.  The bytes are accessed
\* as an archived EngineMetadata though dump wrote an archived
\* Option<EngineMetadata>: a Some is read as its content, and the bytes of a None
\* either fail validation or are read as some EngineMetadata
read_metadata(f) ==
    IF f = NoFile THEN {Err}
    ELSE IF f.prefix > f.rest THEN {Err}
    ELSE IF f.prefix = 0 THEN {Panic}
    ELSE IF f.meta.archived # "Option<EngineMetadata>" THEN {Panic}
    ELSE IF IsSome(f.meta.value) THEN {Ok(Some(Unwrap(f.meta.value)))}
    ELSE {Panic, Ok(Some(DefaultMetadata))}

\* the caller sets engine.metadata
SetMetadata ==
    /\ pc = "ready"
    /\ metadata' = Some(DefaultMetadata)
    /\ last' = [op |-> "set_metadata"]
    /\ pc' = "answered"
    /\ UNCHANGED <<cities, countries, pos, geonames_vec, entries, geonames, capitals,
                   country_info_by_code, tree_index_to_geonameid, tree, tiePolicy>>
    /\ UNCHANGED outside
    /\ UNCHANGED named
    /\ UNCHANGED beside

\* Storage::dump_to
DumpTo ==
    /\ pc = "ready"
    /\ file' = dump
    /\ dumped' = Some(EngineFields)
    /\ last' = [op |-> "dump_to", result |-> Ok(<<>>)]
    /\ pc' = "answered"
    /\ UNCHANGED <<cities, countries, pos, geonames_vec, entries, geonames, capitals,
                   country_info_by_code, tree_index_to_geonameid, tree, tiePolicy,
                   metadata, remote, settings>>
    /\ UNCHANGED named
    /\ UNCHANGED beside

\* the ways the file is damaged
Damages ==
    {"prefix_too_long", "no_metadata", "metadata_garbage", "payload_garbage",
     "payload_truncated"}

Damaged(f, how) ==
    IF how = "prefix_too_long" THEN [f EXCEPT !.prefix = f.rest + 1]
    ELSE IF how = "no_metadata"
         THEN [f EXCEPT !.prefix = 0, !.meta = Empty, !.rest = Size(f.payload)]
    ELSE IF how = "metadata_garbage" THEN [f EXCEPT !.meta = Garbage]
    ELSE IF how = "payload_garbage"
         THEN [f EXCEPT !.payload = Garbage, !.rest = Size(f.meta) + Size(Garbage)]
    ELSE [f EXCEPT !.payload = Empty, !.rest = Size(f.meta)]

\* something else rewrites the file between a dump and a load
Corrupt ==
    /\ pc = "ready"
    /\ file # NoFile
    /\ dumped # None
    /\ file = [prefix |-> Size(file.meta), meta |-> file.meta,
               rest |-> Size(file.meta) + Size(file.payload), payload |-> file.payload]
    /\ file.meta.archived = "Option<EngineMetadata>" /\ file.payload.archived = "Engine"
    /\ \E how \in Damages : file' = Damaged(file, how)
    /\ UNCHANGED <<cities, countries, pc, pos, geonames_vec, entries, geonames, capitals,
                   country_info_by_code, tree_index_to_geonameid, tree, tiePolicy, last,
                   metadata, dumped, remote, settings>>
    /\ UNCHANGED named
    /\ UNCHANGED beside

\* a call of load_from; the caller replaces its engine when an engine came back
LoadFrom ==
    /\ pc = "ready"
    /\ LET result == load_from(file)
       IN /\ last' = [op |-> "load_from", result |-> result]
          /\ IF result.kind = "ok"
             THEN /\ entries' = result.value.entries
                  /\ geonames' = result.value.geonames
                  /\ capitals' = result.value.capitals
                  /\ country_info_by_code' = result.value.country_info_by_code
                  /\ tree_index_to_geonameid' = result.value.tree_index_to_geonameid
                  /\ tree' = result.value.tree
                  /\ metadata' = result.value.metadata
             ELSE UNCHANGED <<entries, geonames, capitals, country_info_by_code,
                              tree_index_to_geonameid, tree, metadata>>
    /\ pc' = "answered"
    /\ UNCHANGED <<cities, countries, pos, geonames_vec, tiePolicy>>
    /\ UNCHANGED outside
    /\ UNCHANGED named
    /\ UNCHANGED beside

\* a call of read_metadata
ReadMetadata ==
    /\ pc = "ready"
    /\ \E result \in read_metadata(file) :
          last' = [op |-> "read_metadata", result |-> result]
    /\ pc' = "answered"
    /\ UNCHANGED engine

\* rows for the engines that are dumped and loaded
StorageRows ==
    {CityRow(id, NameAba, "PPLC", cc, 1, lat) : id \in Ids, cc \in {RU, GB}, lat \in {0, 2}}

InitStorage == InitWith(StorageRows)
NextStorage ==
    ReadRecord \/ Finish \/ SetMetadata \/ DumpTo \/ Corrupt \/ LoadFrom \/ ReadMetadata
        \/ Respond
SpecStorage == InitStorage /\ [][NextStorage]_vars

(***************************************************************************)
(* dump_to step by step: the file is opened with truncate(true) and then   *)
(* written in place by three write_all calls, while other processes may    *)
(* read it.  A read is taken as one step.                                  *)
(***************************************************************************)
\* the file right after it was opened with truncate(true): no byte, not even
\* the prefix can be read
Truncated == [prefix |-> 0, meta |-> Empty, rest |-> 0 - 1, payload |-> Empty]

\* OpenOptions::new().create(true).write(true).truncate(true).open(&path); the
\* engine is borrowed for the whole call, so what will be written is fixed
DumpOpen ==
    /\ pc = "ready"
    /\ writer = Idle
    /\ writer' = [step |-> "opened", before |-> file, image |-> dump,
                  engine |-> EngineFields]
    /\ file' = Truncated
    /\ UNCHANGED <<cities, countries, pc, pos, geonames_vec, entries, geonames, capitals,
                   country_info_by_code, tree_index_to_geonameid, tree, tiePolicy, last,
                   metadata, dumped, remote, settings, heap, handles>>
    /\ UNCHANGED named

\* buff.write_all(&(metadata.len() as u32).to_be_bytes())
DumpWritePrefix ==
    /\ pc = "ready"
    /\ writer.step = "opened"
    /\ writer' = [writer EXCEPT !.step = "prefix"]
    /\ file' = [prefix |-> writer.image.prefix, meta |-> Empty, rest |-> 0,
                payload |-> Empty]
    /\ UNCHANGED <<cities, countries, pc, pos, geonames_vec, entries, geonames, capitals,
                   country_info_by_code, tree_index_to_geonameid, tree, tiePolicy, last,
                   metadata, dumped, remote, settings, heap, handles>>
    /\ UNCHANGED named

\* buff.write_all(&metadata)
DumpWriteMetadata ==
    /\ pc = "ready"
    /\ writer.step = "prefix"
    /\ writer' = [writer EXCEPT !.step = "metadata"]
    /\ file' = [file EXCEPT !.meta = writer.image.meta, !.rest = Size(writer.image.meta)]
    /\ UNCHANGED <<cities, countries, pc, pos, geonames_vec, entries, geonames, capitals,
                   country_info_by_code, tree_index_to_geonameid, tree, tiePolicy, last,
                   metadata, dumped, remote, settings, heap, handles>>
    /\ UNCHANGED named

\* buff.write_all(&data): the file is complete and dump_to returns
DumpWriteData ==
    /\ pc = "ready"
    /\ writer.step = "metadata"
    /\ writer' = Idle
    /\ file' = writer.image
    /\ dumped' = Some(writer.engine)
    /\ UNCHANGED <<cities, countries, pc, pos, geonames_vec, entries, geonames, capitals,
                   country_info_by_code, tree_index_to_geonameid, tree, tiePolicy, last,
                   metadata, remote, settings, heap, handles>>
    /\ UNCHANGED named

\* rows for the engines a writer dumps while readers run
ConcurrentRows == {CityRow(1, NameAba, "PPL", cc, 1, 0) : cc \in {RU, GB}}

InitConcurrent == InitWith(ConcurrentRows)
NextConcurrent ==
    ReadRecord \/ Finish \/ SetMetadata \/ DumpOpen \/ DumpWritePrefix
        \/ DumpWriteMetadata \/ DumpWriteData \/ LoadFrom \/ ReadMetadata \/ Respond
SpecConcurrent == InitConcurrent /\ [][NextConcurrent]_vars

(***************************************************************************)
(* geoip2: load_geoip2 leaks a buffer and a reader over it and keeps       *)
(* 'static references to them in the Engine; Engine is Clone, and a clone  *)
(* copies the references.  A buffer and its reader are one heap cell.      *)
(***************************************************************************)
\* #[derive(Clone)]: the new value refers to the same buffer and reader
CloneEngine ==
    /\ pc = "ready"
    /\ Len(handles) < MaxHandles
    /\ \E h \in 1..Len(handles) : handles' = Append(handles, handles[h])
    /\ UNCHANGED <<cities, countries, pc, pos, geonames_vec, entries, geonames, capitals,
                   country_info_by_code, tree_index_to_geonameid, tree, tiePolicy, last,
                   metadata, writer, heap>>
    /\ UNCHANGED outside
    /\ UNCHANGED named

\* the heap after Box::from_raw of the handle's buffer and reader are dropped
Released(h) ==
    IF IsSome(handles[h])
    THEN [heap EXCEPT ![Unwrap(handles[h])] = "freed"]
    ELSE heap

\* the handle's buffer was released before: dropping it again is undefined
FreedTwice(h) == IsSome(handles[h]) /\ heap[Unwrap(handles[h])] = "freed"

\* how a call of load_geoip2 goes on after the release: the file cannot be
\* read, the bytes are not a database, or the reader is made
LoadWays == {"read_fails", "parse_fails", "loads"}

\* load_geoip2 on one Engine value: the previous buffer and reader are
\* released first, then the file is read and leaked, then the reader
LoadGeoip2 ==
    /\ pc = "ready"
    /\ Len(heap) < MaxBuffers
    /\ \E h \in 1..Len(handles), way \in LoadWays :
          /\ heap' = IF way = "read_fails" THEN Released(h)
                     ELSE Append(Released(h), "live")
          /\ handles' = [handles EXCEPT ![h] = IF way = "loads"
                                               THEN Some(Len(heap) + 1) ELSE None]
          /\ \E result \in (IF way = "loads" THEN {Ok(<<>>)} ELSE {Err})
                                \cup (IF FreedTwice(h) THEN {Panic} ELSE {}) :
                last' = [op |-> "load_geoip2", handle |-> h, previous |-> handles[h],
                         result |-> result]
    /\ pc' = "answered"
    /\ UNCHANGED <<cities, countries, pos, geonames_vec, entries, geonames, capitals,
                   country_info_by_code, tree_index_to_geonameid, tree, tiePolicy,
                   metadata, writer>>
    /\ UNCHANGED outside
    /\ UNCHANGED named

\* what the database answers for an address: no city, or a geoname_id
Found == {None, Some(1), Some(3)}

\* geoip2_lookup with a reader over a live buffer
Looked(found) == IF IsSome(found) THEN get(Unwrap(found)) ELSE None

\* geoip2_lookup on one Engine value; reading a released reader is undefined:
\* the call may crash or return anything a lookup can return
Geoip2Lookup ==
    /\ pc = "ready"
    /\ \E h \in 1..Len(handles) :
          \E result \in
                IF handles[h] = None THEN {Ok(None)}
                ELSE {Ok(Looked(found)) : found \in Found}
                        \cup (IF heap[Unwrap(handles[h])] = "freed" THEN {Panic} ELSE {}) :
              last' = [op |-> "geoip2_lookup", handle |-> h, reader |-> handles[h],
                       result |-> result]
    /\ pc' = "answered"
    /\ UNCHANGED engine

\* one city row, for lookups that find a city and lookups that do not
Geoip2Rows == {CityRow(1, NameAba, "PPL", RU, 1, 0)}

InitGeoip2 == InitWith(Geoip2Rows)
NextGeoip2 ==
    ReadRecord \/ Finish \/ CloneEngine \/ LoadGeoip2 \/ Geoip2Lookup \/ Respond
SpecGeoip2 == InitGeoip2 /\ [][NextGeoip2]_vars

(***************************************************************************)
(* IndexUpdater: has_updates and the metadata build records.               *)
(***************************************************************************)
\* the requests that fail in a call: none, or the one to a single source
FailureSets == {{}} \cup {{s} : s \in Sources}

\* the sources has_updates asks for: cities, and names, countries and
\* admin1_codes when configured
Checked == {"cities"} \cup (settings \cap {"names", "countries", "admin1_codes"})

\* metadata.source.etag.get(entry).unwrap_or("")
CurrentEtag(recorded, entry) ==
    IF entry \in DOMAIN recorded THEN recorded[entry] ELSE ""

\* has_updates: what it can return when the requests in failing fail.  The loop
\* runs over a HashMap, so which entry it meets first is not determined
has_updates(m, failing) ==
    IF m.etag = EmptyMap THEN {Ok(TRUE)}
    ELSE LET bad == Checked \cap failing
             new == {entry \in Checked \ failing :
                        CurrentEtag(m.etag, entry) # remote[entry]}
         IN (IF bad # {} THEN {Err} ELSE {})
               \cup (IF new # {} THEN {Ok(TRUE)} ELSE {})
               \cup (IF bad = {} /\ new = {} THEN {Ok(FALSE)} ELSE {})

\* IndexUpdater::build: fetch every configured source, build, record the ETags;
\* a failed fetch fails the build.  The content fetched is the content the
\* engine was built from, so the index itself is as before
UpdaterBuild ==
    /\ pc = "ready"
    /\ \E failing \in FailureSets :
          IF failing \cap settings = {}
          THEN /\ metadata' = Some([etag |-> [s \in settings |-> remote[s]]])
               /\ last' = [op |-> "build", result |-> Ok(<<>>)]
          ELSE /\ metadata' = metadata
               /\ last' = [op |-> "build", result |-> Err]
    /\ pc' = "answered"
    /\ UNCHANGED <<cities, countries, pos, geonames_vec, entries, geonames, capitals,
                   country_info_by_code, tree_index_to_geonameid, tree, tiePolicy>>
    /\ UNCHANGED outside
    /\ UNCHANGED named
    /\ UNCHANGED beside

\* a server publishes a new version of a source
RemoteChange ==
    /\ pc = "ready"
    /\ \E s \in Sources, e \in ETags :
          /\ e # remote[s]
          /\ remote' = [remote EXCEPT ![s] = e]
    /\ UNCHANGED <<cities, countries, pc, pos, geonames_vec, entries, geonames, capitals,
                   country_info_by_code, tree_index_to_geonameid, tree, tiePolicy, last,
                   metadata, file, dumped, settings>>
    /\ UNCHANGED named
    /\ UNCHANGED beside

\* a call of has_updates with the engine's metadata
HasUpdates ==
    /\ pc = "ready"
    /\ IsSome(metadata)
    /\ \E failing \in FailureSets :
          \E result \in has_updates(Unwrap(metadata), failing) :
              last' = [op |-> "has_updates", failing |-> failing, result |-> result]
    /\ pc' = "answered"
    /\ UNCHANGED engine

\* the settings an updater is made with; the cities source is not optional
SettingsChoices == {Sources, Sources \ {"admin2_codes"}, {"cities"}}

InitUpdater == InitEngine({}, {None}) /\ settings \in SettingsChoices
NextUpdater ==
    Finish \/ SetMetadata \/ UpdaterBuild \/ RemoteChange \/ HasUpdates \/ Respond
SpecUpdater == InitUpdater /\ [][NextUpdater]_vars

(***************************************************************************)
(* The update cycle of the example: load_engine_data builds and dumps when *)
(* there is no index file; otherwise it reads the metadata of the file,    *)
(* asks has_updates, and either rebuilds and dumps or loads the file.      *)
(***************************************************************************)
\* the metadata IndexUpdater::build gives the engine data it returns
BuiltMetadata == Some([etag |-> [s \in settings |-> remote[s]]])

\* the file dump_to writes for the engine with the metadata md
DumpOf(md) ==
    [dump EXCEPT !.meta = Archive("Option<EngineMetadata>", md),
                 !.payload = Archive("Engine", [EngineArchive EXCEPT !.metadata = md])]

\* updater.build() succeeded and storage.dump_to wrote the file; attached is
\* the metadata the returned engine data ends with
CycleBuilt(path, attached) ==
    /\ file' = DumpOf(BuiltMetadata)
    /\ dumped' = Some([EngineFields EXCEPT !.metadata = BuiltMetadata])
    /\ metadata' = attached
    /\ last' = [op |-> "load_engine_data", path |-> path, result |-> Ok(<<>>)]
    /\ UNCHANGED <<entries, geonames, capitals, country_info_by_code,
                   tree_index_to_geonameid, tree>>

\* a step of the cycle returned an error or panicked: nothing is written
CycleFailed(path, result) ==
    /\ last' = [op |-> "load_engine_data", path |-> path, result |-> result]
    /\ UNCHANGED <<entries, geonames, capitals, country_info_by_code,
                   tree_index_to_geonameid, tree, metadata, file, dumped>>

\* storage.load_from(index_file), then engine.metadata = metadata
CycleLoaded(md) ==
    LET loaded == load_from(file)
    IN IF loaded.kind = "ok"
       THEN /\ entries' = loaded.value.entries
            /\ geonames' = loaded.value.geonames
            /\ capitals' = loaded.value.capitals
            /\ country_info_by_code' = loaded.value.country_info_by_code
            /\ tree_index_to_geonameid' = loaded.value.tree_index_to_geonameid
            /\ tree' = loaded.value.tree
            /\ metadata' = md
            /\ last' = [op |-> "load_engine_data", path |-> "load", result |-> Ok(<<>>)]
            /\ UNCHANGED <<file, dumped>>
       ELSE CycleFailed("load", loaded)

\* load_engine_data, one call
LoadEngineData ==
    /\ pc = "ready"
    /\ \E failing \in FailureSets :
          IF file = NoFile
          THEN IF failing \cap settings = {}
               THEN CycleBuilt("initial", BuiltMetadata)
               ELSE CycleFailed("initial", Err)
          ELSE \E read \in read_metadata(file) :
                  IF read.kind # "ok" THEN CycleFailed("read_metadata", read)
                  ELSE IF read.value = None THEN CycleLoaded(read.value)
                  ELSE \E updates \in has_updates(Unwrap(read.value), failing) :
                          IF updates = Err THEN CycleFailed("has_updates", Err)
                          ELSE IF updates = Ok(FALSE) THEN CycleLoaded(read.value)
                          ELSE \E failed \in FailureSets :
                                  IF failed \cap settings = {}
                                  THEN CycleBuilt("rebuild", read.value)
                                  ELSE CycleFailed("rebuild", Err)
    /\ pc' = "answered"
    /\ UNCHANGED <<cities, countries, pos, geonames_vec, tiePolicy, remote, settings>>
    /\ UNCHANGED named
    /\ UNCHANGED beside

InitCycle == InitEngine({}, {None}) /\ settings \in SettingsChoices
NextCycle == Finish \/ LoadEngineData \/ RemoteChange \/ Respond
SpecCycle == InitCycle /\ [][NextCycle]_vars

(***************************************************************************)
(* Properties.  What the properties say is written out here in the terms   *)
(* of the specification, not taken from the operators above.               *)
(***************************************************************************)
IsSuggest == pc = "answered" /\ last.op = "suggest"
IsReverse == pc = "answered" /\ last.op = "reverse"

EqIgnoreCase(a, b) == to_lowercase(a) = to_lowercase(b)

\* the country set C names the code
InCountrySet(code, C) == \E j \in 1..Len(C) : EqIgnoreCase(C[j], code)

\* the entry passes the country filter: its country_id is the geonameid of a
\* country that country_info_by_code holds under an upper-cased code of C
PassesFilter(e, country_filter) ==
    IsSome(country_filter) =>
        /\ IsSome(e.country_id)
        /\ \E j \in 1..Len(Unwrap(country_filter)) :
              LET code == to_uppercase(Unwrap(country_filter)[j])
              IN /\ code \in DOMAIN country_info_by_code
                 /\ country_info_by_code[code].info.geonameid = Unwrap(e.country_id)

\* score(e): 1.0 on a prefix match, the Jaro-Winkler similarity otherwise
ClaimScore(e, pattern) ==
    IF starts_with(e.value, to_lowercase(pattern))
    THEN Frac(1, 1)
    ELSE jaro_winkler(e.value, to_lowercase(pattern))

\* m: min_score if given, 0.8 if not
ClaimMin(min_score) == IF min_score = None THEN Frac(8, 10) ELSE Unwrap(min_score)

\* the entries of the city that qualify in the last suggest call
Qualifying(id) ==
    {i \in 1..Len(entries) :
        /\ entries[i].id = id
        /\ PassesFilter(entries[i], last.countries)
        /\ FracGe(ClaimScore(entries[i], last.pattern), ClaimMin(last.min_score))}

\* some qualifying entry of city a scores at least as much as every one of city b
BestGe(a, b) ==
    \E i \in Qualifying(a) : \A j \in Qualifying(b) :
        FracGe(ClaimScore(entries[i], last.pattern), ClaimScore(entries[j], last.pattern))

\* s is a prefix of t
IsPrefix(s, t) == Len(s) <= Len(t) /\ \A i \in 1..Len(s) : s[i] = t[i]

\* C1: every city suggest returns under a country set C has a country whose
\* code C names, compared case-insensitively; a city without a country is never
\* returned when C is given
C1_CountryFilter ==
    (IsSuggest /\ IsSome(last.countries)) =>
        \A i \in 1..Len(last.result) :
            /\ IsSome(last.result[i].country)
            /\ InCountrySet(Unwrap(last.result[i].country).code, Unwrap(last.countries))

\* C2, as claimed: suggest with the empty pattern returns the empty list
C2_EmptyPatternEmpty ==
    (IsSuggest /\ last.pattern = <<>>) => last.result = <<>>

\* the cities that own an entry passing the country filter of the last call
FilteredCities ==
    {entries[i].id : i \in {k \in 1..Len(entries) : PassesFilter(entries[k], last.countries)}}

\* C2, amended: against the empty pattern every entry scores 1.0, so suggest
\* returns the empty list only when limit = 0, when min_score > 1.0 or when no
\* entry passes the country filter; otherwise it returns min(limit, n) cities, n
\* the number of cities owning an entry that passes the filter
C2_EmptyPattern ==
    (IsSuggest /\ last.pattern = <<>>) =>
        Len(last.result) =
            IF last.limit = 0 \/ FracGt(ClaimMin(last.min_score), Frac(1, 1))
            THEN 0
            ELSE Min2(last.limit, Cardinality(FilteredCities))

C2_Witness ==
    /\ IsSuggest /\ last.pattern = <<>>
    /\ Len(last.result) = 2
    /\ IsSome(last.countries)

\* C3: with limit at least the number of cities, suggest returns exactly the
\* cities that own an entry passing the country filter with score(e) >= m
C3_ResultSet ==
    (IsSuggest /\ last.limit >= Cardinality(DOMAIN geonames)) =>
        {last.result[i] : i \in 1..Len(last.result)}
            = {geonames[id] : id \in {x \in DOMAIN geonames : Qualifying(x) # {}}}

\* a fuzzy match (no prefix) is returned and another city is left out
C3_Witness ==
    /\ IsSuggest /\ last.limit >= Cardinality(DOMAIN geonames)
    /\ Cardinality(DOMAIN geonames) = 2
    /\ Len(last.result) = 1
    /\ last.min_score = None
    /\ \A i \in Qualifying(last.result[1].id) :
          ~starts_with(entries[i].value, to_lowercase(last.pattern))

\* C4: of two cities in a suggest result, the one listed first has the greater
\* or equal best qualifying score, and on equal best scores the greater or equal
\* population
C4_Order ==
    IsSuggest =>
        \A i, j \in 1..Len(last.result) :
            i < j =>
                LET a == last.result[i]
                    b == last.result[j]
                IN /\ BestGe(a.id, b.id)
                   /\ BestGe(b.id, a.id) => a.population >= b.population

\* two cities with equal best scores and different populations, and two with
\* different best scores, are both seen
C4_Witness ==
    /\ IsSuggest /\ Len(last.result) = 2
    /\ ~BestGe(last.result[2].id, last.result[1].id)
    /\ last.result[1].population < last.result[2].population

HasPrefixEntry(id) ==
    \E i \in 1..Len(entries) :
        /\ entries[i].id = id
        /\ PassesFilter(entries[i], last.countries)
        /\ starts_with(entries[i].value, to_lowercase(last.pattern))

\* no entry of the city starts with the pattern
OnlyNonPrefix(id) ==
    \A i \in 1..Len(entries) :
        entries[i].id = id => ~starts_with(entries[i].value, to_lowercase(last.pattern))

\* C6: for min_score <= 1.0, when city A owns a prefix entry and city B owns
\* none, B appears in a suggest result only behind A
C6_PrefixDominance ==
    (IsSuggest /\ FracGe(Frac(1, 1), ClaimMin(last.min_score))) =>
        \A a, b \in DOMAIN geonames :
            (HasPrefixEntry(a) /\ OnlyNonPrefix(b)) =>
                \A j \in 1..Len(last.result) :
                    last.result[j].id = b =>
                        \E i \in 1..(j - 1) : last.result[i].id = a

C6_Witness ==
    /\ IsSuggest /\ Len(last.result) = 2
    /\ last.pattern # <<>>
    /\ HasPrefixEntry(last.result[1].id) /\ OnlyNonPrefix(last.result[2].id)
    /\ last.result[1].population < last.result[2].population

\* C7: suggest returns the empty list for limit = 0, and otherwise at most
\* limit cities, no city id twice
C7_LimitAndUnique ==
    IsSuggest =>
        /\ last.limit = 0 => last.result = <<>>
        /\ Len(last.result) <= last.limit
        /\ \A i, j \in 1..Len(last.result) :
              last.result[i].id = last.result[j].id => i = j

\* a city matched through several of its entries is listed once
C7_Witness ==
    /\ IsSuggest /\ last.limit > 0
    /\ Len(last.result) = last.limit
    /\ \E i \in 1..Len(last.result) : Cardinality(Qualifying(last.result[i].id)) >= 2
    /\ Cardinality({x \in DOMAIN geonames : Qualifying(x) # {}}) > last.limit

\* the cities the last query returned, whatever the query
ReturnedCities ==
    IF pc # "answered" THEN {}
    ELSE IF last.op = "suggest" THEN {last.result[i] : i \in 1..Len(last.result)}
    ELSE IF last.op = "reverse"
         THEN IF last.result = None THEN {}
              ELSE {Unwrap(last.result)[i].city : i \in 1..Len(Unwrap(last.result))}
    ELSE IF last.op \in {"get", "capital"}
         THEN IF last.result = None THEN {} ELSE {Unwrap(last.result)}
    ELSE {}

\* the rows whose feature code is none of the dropped ones
KeptRows ==
    {i \in 1..Len(cities) :
        cities[i].feature_code \notin
            {"PPLA3", "PPLA4", "PPLA5", "PPLF", "PPLL", "PPLQ", "PPLW", "PPLX", "STLMT"}}

\* the city record carries what the row says
BuiltFrom(city, row) ==
    /\ city.id = row.geonameid
    /\ city.name = row.name
    /\ city.latitude = row.latitude /\ city.longitude = row.longitude
    /\ city.population = row.population
    /\ IsSome(city.country) => Unwrap(city.country).code = row.country_code

\* the names a row is searched by
RowNames(row) ==
    LET alt == split(to_lowercase(row.alternatenames), ",")
    IN {to_lowercase(row.name), to_lowercase(row.asciiname)}
           \cup {alt[i] : i \in 1..Len(alt)}

C9_CapitalIsPPLC ==
    (pc = "answered" /\ last.op = "capital" /\ IsSome(last.result)) =>
        \E i \in 1..Len(cities) :
            /\ cities[i].feature_code = "PPLC"
            /\ BuiltFrom(Unwrap(last.result), cities[i])

\* the cities of the engine whose country code the set of the last call names
InCountries ==
    {id \in DOMAIN geonames :
        /\ IsSome(geonames[id].country)
        /\ InCountrySet(Unwrap(geonames[id].country).code, Unwrap(last.countries))}

\* C10: reverse with a country set C and no k, on a non-empty engine with
\* limit > 0, returns exactly min(limit, m) cities, all among the m cities whose
\* country code is in C compared case-insensitively, none of the m left out
\* being nearer than one returned, in non-decreasing order of distance
C10_ReverseCountries ==
    (IsReverse /\ IsSome(last.countries) /\ last.k = None
        /\ last.limit > 0 /\ DOMAIN geonames # {}) =>
        /\ IsSome(last.result)
        /\ LET items == Unwrap(last.result)
               ids == {items[i].city.id : i \in 1..Len(items)}
           IN /\ Len(items) = Min2(last.limit, Cardinality(InCountries))
              /\ Cardinality(ids) = Len(items)
              /\ ids \subseteq InCountries
              /\ \A i \in 1..Len(items) :
                    /\ items[i].city = geonames[items[i].city.id]
                    /\ items[i].distance
                         = Dist(<<items[i].city.latitude, items[i].city.longitude>>, last.loc)
                    /\ \A j \in 1..Len(items) :
                          i < j => items[i].distance <= items[j].distance
                    /\ \A id \in InCountries \ ids :
                          Dist(<<geonames[id].latitude, geonames[id].longitude>>, last.loc)
                              >= items[i].distance

\* the squared Euclidean distance of a city to the point of the last reverse call
CityDist(city) == Dist(<<city.latitude, city.longitude>>, last.loc)

\* C11: reverse returns none for limit = 0; for limit > 0 with no k and no
\* countries it returns min(limit, number of cities) items, the cities nearest
\* to the point, in non-decreasing distance, each with score = distance
C11_ReverseNearest ==
    IsReverse =>
        /\ last.limit = 0 => last.result = None
        /\ (last.limit > 0 /\ last.k = None /\ last.countries = None) =>
              /\ IsSome(last.result)
              /\ LET items == Unwrap(last.result)
                     ids == {items[i].city.id : i \in 1..Len(items)}
                 IN /\ Len(items) = Min2(last.limit, Cardinality(DOMAIN geonames))
                    /\ Cardinality(ids) = Len(items)
                    /\ \A i \in 1..Len(items) :
                          /\ items[i].city.id \in DOMAIN geonames
                          /\ items[i].city = geonames[items[i].city.id]
                          /\ items[i].distance = CityDist(items[i].city)
                          /\ items[i].score = items[i].distance
                          /\ \A j \in 1..Len(items) :
                                i < j => items[i].distance <= items[j].distance
                          /\ \A id \in DOMAIN geonames \ ids :
                                CityDist(geonames[id]) >= items[i].distance

\* the nearer of two cities is returned, the one read first is left out
C11_Witness ==
    /\ IsReverse /\ last.limit = 1 /\ last.k = None /\ last.countries = None
    /\ Cardinality(DOMAIN geonames) = 2
    /\ Len(Unwrap(last.result)) = 1
    /\ \E id \in DOMAIN geonames :
          /\ CityDist(geonames[id]) > Unwrap(last.result)[1].distance
          /\ id < Unwrap(last.result)[1].city.id

\* C12: reverse with k returns the cities reverse without k returns for the same
\* other arguments, each with the same distance and with
\* score = distance - k * population, in ascending order of score
C12_PopulationWeight ==
    (IsReverse /\ IsSome(last.k)) =>
        LET plain == reverse(last.loc, last.limit, None, last.countries)
        IN /\ IsSome(last.result) <=> IsSome(plain)
           /\ IsSome(last.result) =>
                 LET items == Unwrap(last.result)
                     base == Unwrap(plain)
                 IN /\ Len(items) = Len(base)
                    /\ {[city |-> items[i].city, distance |-> items[i].distance] :
                            i \in 1..Len(items)}
                         = {[city |-> base[i].city, distance |-> base[i].distance] :
                            i \in 1..Len(base)}
                    /\ \A i \in 1..Len(items) :
                          /\ items[i].score
                               = items[i].distance
                                   - Unwrap(last.k) * items[i].city.population
                          /\ \A j \in 1..Len(items) :
                                i < j => items[i].score <= items[j].score

\* the weight puts the farther of two cities first
C12_Witness ==
    /\ IsReverse /\ IsSome(last.k) /\ IsSome(last.result)
    /\ Len(Unwrap(last.result)) = 2
    /\ Unwrap(last.result)[1].distance > Unwrap(last.result)[2].distance

\* the country rows whose code no other row of the file equals ignoring case
DistinctCountryRows ==
    IF countries = None THEN {}
    ELSE LET rows == Unwrap(countries)
         IN {i \in 1..Len(rows) :
                \A j \in 1..Len(rows) : EqIgnoreCase(rows[j].iso, rows[i].iso) => j = i}

\* C18: every key of capitals and of country_info_by_code is upper case, and for
\* every country row with code X and every c equal to X ignoring case,
\* country_info(c) is that row's record and capital(c) the capital recorded for X
C18_UppercaseKeys ==
    pc # "build" =>
        /\ \A key \in DOMAIN capitals \cup DOMAIN country_info_by_code :
              key = to_uppercase(key)
        /\ \A i \in DistinctCountryRows : \A c \in Codes :
              LET row == Unwrap(countries)[i]
              IN EqIgnoreCase(c, row.iso) =>
                    /\ IsSome(country_info(c))
                    /\ Unwrap(country_info(c)).info = row
                    /\ capital(c) = capital(row.iso)

\* the surviving PPLC rows that carry the country code
CapitalRows(cc) ==
    {i \in KeptRows : cities[i].feature_code = "PPLC" /\ cities[i].country_code = cc}

\* the greatest element of a non-empty set of row numbers: the last row
LastOf(rows) == CHOOSE i \in rows : \A j \in rows : j <= i

\* C19: after a build, with or without a countries file, capitals maps every
\* country code carried by a surviving PPLC row to the geonameid of the last such
\* row, and has no other key
C19_Capitals ==
    pc # "build" =>
        /\ DOMAIN capitals
             = {cities[i].country_code :
                  i \in {k \in KeptRows : cities[k].feature_code = "PPLC"}}
        /\ \A cc \in DOMAIN capitals :
              CapitalRows(cc) # {} =>
                  capitals[cc] = cities[LastOf(CapitalRows(cc))].geonameid

\* C20: after a build geonames holds one record for every geonameid of the
\* surviving rows and for no other id, built from the last surviving row that
\* carries the id
C20_LastWriterWins ==
    pc # "build" =>
        /\ DOMAIN geonames = {cities[i].geonameid : i \in KeptRows}
        /\ \A id \in DOMAIN geonames :
              /\ geonames[id].id = id
              /\ BuiltFrom(geonames[id],
                           cities[LastOf({i \in KeptRows : cities[i].geonameid = id})])

IsLoad == pc = "answered" /\ last.op = "load_from"
IsReadMetadata == pc = "answered" /\ last.op = "read_metadata"

C14_LoadNoPanic ==
    IsLoad =>
        /\ last.result.kind # "panic"
        /\ (file # NoFile /\ (file.prefix > file.rest \/ file.payload.archived # "Engine"))
              => last.result.kind = "err"

\* C15: read_metadata of a file whose length prefix is zero returns Ok(None)
C15_ZeroPrefix ==
    (IsReadMetadata /\ file # NoFile /\ file.prefix = 0) => last.result = Ok(None)

\* the first 4 + M bytes of the file are those dump_to wrote from E
MetadataIntact ==
    /\ file # NoFile /\ IsSome(dumped)
    /\ file.meta = Archive("Option<EngineMetadata>", Unwrap(dumped).metadata)
    /\ file.prefix = Size(file.meta)

\* C16: read_metadata of a file dump_to wrote from E returns E.metadata, whatever
\* has become of the bytes behind the metadata
C16_ReadMetadata ==
    (IsReadMetadata /\ MetadataIntact) => last.result = Ok(Unwrap(dumped).metadata)

\* C17: has_updates returns true when no ETag is recorded, and otherwise true
\* exactly when the ETag a configured source answers with now differs from the
\* one recorded for it (every request being answered)
C17_HasUpdates ==
    (pc = "answered" /\ last.op = "has_updates" /\ last.failing = {}) =>
        LET recorded == Unwrap(metadata).etag
        IN last.result
             = Ok(\/ recorded = EmptyMap
                  \/ \E s \in settings : CurrentEtag(recorded, s) # remote[s])

\* the names file has just been read
NamesRead == pc = "build" /\ pos = 1 /\ IsSome(names) /\ IsSome(names_by_id)

\* the rows of (id, lang) that pass every rejection rule, by position in the file
AcceptedAt(id, lang) ==
    {i \in 1..Len(Unwrap(names)) :
        /\ Unwrap(names)[i].geonameid = id
        /\ Unwrap(names)[i].isolanguage = lang
        /\ ~NamesSkipped(Unwrap(names)[i])}

\* the row the names map has to hold for (id, lang): the first preferred one,
\* the last one when none is preferred
ChosenAt(id, lang) ==
    LET acc == AcceptedAt(id, lang)
        pref == {i \in acc : Unwrap(names)[i].is_preferred_name = "1"}
    IN IF pref # {} THEN CHOOSE i \in pref : \A j \in pref : i <= j
       ELSE CHOOSE i \in acc : \A j \in acc : j <= i

NameIds == {Unwrap(names)[i].geonameid : i \in 1..Len(Unwrap(names))}
NameLangs == {Unwrap(names)[i].isolanguage : i \in 1..Len(Unwrap(names))}

\* C21: for every geonameid and language the names map holds the
\* alternate_name of the first accepted row flagged preferred, or of the last
\* accepted row when none is preferred, and nothing when no row is accepted
C21_NamesChoice ==
    NamesRead =>
        \A id \in NameIds, lang \in NameLangs :
            LET m == Unwrap(names_by_id)
                stored == id \in DOMAIN m /\ lang \in DOMAIN m[id]
            IN IF AcceptedAt(id, lang) = {} THEN ~stored
               ELSE /\ stored
                    /\ m[id][lang] = Unwrap(names)[ChosenAt(id, lang)].alternate_name

\* three accepted rows of one (id, lang): a plain one, a preferred one with
\* another name, a later one with yet another name; the preferred name stays
C21_Witness ==
    /\ NamesRead
    /\ Len(Unwrap(names)) = 3
    /\ AcceptedAt(1, "en") = {1, 2, 3}
    /\ Unwrap(names)[1].is_preferred_name # "1"
    /\ Unwrap(names)[2].is_preferred_name = "1"
    /\ Unwrap(names)[1].alternate_name # Unwrap(names)[2].alternate_name
    /\ Unwrap(names)[3].alternate_name # Unwrap(names)[2].alternate_name
    /\ Unwrap(names_by_id)[1]["en"] = Unwrap(names)[2].alternate_name

\* the index is built
Built == pc \in {"ready", "answered"}

\* C22: in a built index every entry's id is a key of geonames
C22_EntriesResolve ==
    Built => \A i \in 1..Len(entries) : entries[i].id \in DOMAIN geonames

\* two surviving rows share a geonameid, one record is left of them, and a
\* suggest call has returned it
C22_Witness ==
    /\ IsSuggest
    /\ Len(last.result) > 0
    /\ Len(cities) = 2
    /\ cities[1].geonameid = cities[2].geonameid
    /\ cities[1] # cities[2]
    /\ ~IsExcluded(cities[1].feature_code) /\ ~IsExcluded(cities[2].feature_code)
    /\ Cardinality(DOMAIN geonames) = 1

\* the entries the claim lists for a row: name, asciiname if it differs, every
\* token of alternatenames, the empty ones only when asked
ListedEntries(row, empty_too) ==
    LET country_id == IF IsSome(country_by_code)
                         /\ row.country_code \in DOMAIN Unwrap(country_by_code)
                      THEN Some(Unwrap(country_by_code)[row.country_code].geonameid)
                      ELSE None
        alt == SelectSeq(split(row.alternatenames, ","),
                        LAMBDA token : empty_too \/ token # <<>>)
    IN <<[id |-> row.geonameid, value |-> to_lowercase(row.name),
          country_id |-> country_id]>>
       \o (IF row.asciiname # row.name
           THEN <<[id |-> row.geonameid, value |-> to_lowercase(row.asciiname),
                   country_id |-> country_id]>>
           ELSE <<>>)
       \o [k \in 1..Len(alt) |->
              [id |-> row.geonameid, value |-> to_lowercase(alt[k]),
               country_id |-> country_id]]

\* the listed entries of the first n rows, dropped rows left out
RECURSIVE ListedUpTo(_, _)
ListedUpTo(n, empty_too) ==
    IF n = 0 THEN <<>>
    ELSE ListedUpTo(n - 1, empty_too)
            \o (IF n \in KeptRows THEN ListedEntries(cities[n], empty_too) ELSE <<>>)

\* C23: the entries of a built index are, row by row, the lowercased name, the
\* lowercased asciiname if it differs from the name and the lowercased non-empty
\* tokens of alternatenames, each with the row's geonameid and the geonameid of
\* the row's country; no entry has an empty value for an empty token
C23_EntriesEmitted ==
    Built => entries = ListedUpTo(Len(cities), FALSE)

\* C24: in a built index every city with a resolved country carries the names
\* bundle of its country record, so two cities of one country carry equal
\* country_names
C24_CountryNames ==
    Built =>
        \A id \in DOMAIN geonames :
            LET c == geonames[id]
            IN IsSome(c.country) =>
                  /\ Unwrap(c.country).code \in DOMAIN country_info_by_code
                  /\ c.country_names = country_info_by_code[Unwrap(c.country).code].names
                  /\ \A other \in DOMAIN geonames :
                        geonames[other].country = c.country =>
                            geonames[other].country_names = c.country_names

\* C25: in a built index the capital_names of a country record with a capital
\* are the names of the capital's city record
C25_CapitalNames ==
    Built =>
        \A cc \in DOMAIN country_info_by_code :
            cc \in DOMAIN capitals =>
                /\ capitals[cc] \in DOMAIN geonames
                /\ country_info_by_code[cc].capital_names = geonames[capitals[cc]].names

IsParse == pc = "answered" /\ last.op = "parse"

\* C26: for every content and every n the records read are the well-formed
\* rows of the content in input order
C26_ParseChunks ==
    IsParse => last.result = SelectSeq(last.content, LAMBDA line : line.parses)

\* the loop over the rows is done and the records are about to be sorted
LoopDone == pc = "build" /\ pos > Len(cities)

Replacing == writer # Idle /\ writer.before # NoFile

\* C28: a load_from or read_metadata that runs while dump_to replaces a
\* complete dump returns what it returns on the old file or on the new file
C28_ConcurrentRead ==
    (pc = "answered" /\ Replacing) =>
        /\ last.op = "load_from" =>
              last.result \in {load_from(writer.before), load_from(writer.image)}
        /\ last.op = "read_metadata" =>
              last.result \in read_metadata(writer.before) \cup read_metadata(writer.image)

\* C29: the buffer and reader of every Engine value are not released, a
\* lookup reads a live reader, and a failed load_geoip2 leaves the handle with
\* its previous reader or with none
C29_Geoip2Live ==
    /\ \A h \in 1..Len(handles) :
          IsSome(handles[h]) => heap[Unwrap(handles[h])] = "live"
    /\ (pc = "answered" /\ last.op = "geoip2_lookup" /\ IsSome(last.reader)) =>
          heap[Unwrap(last.reader)] = "live"
    /\ (pc = "answered" /\ last.op = "load_geoip2" /\ last.result = Err) =>
          handles[last.handle] \in {None, last.previous}

\* load_engine_data has returned engine data
CycleReturned ==
    pc = "answered" /\ last.op = "load_engine_data" /\ last.result.kind = "ok"

\* C30: when load_engine_data returns engine data, its metadata is the
\* metadata in the header of the index file
C30_CycleMetadata ==
    CycleReturned =>
        /\ file # NoFile
        /\ file.meta = Archive("Option<EngineMetadata>", metadata)

====
